---- MODULE Spec2Model ----
(***************************************************************************)
(* Lyrics synchronisation of src/frontend/script.js (the ABR player, lines *)
(* 330-760): cue loading (setupTextTracks, loadAllCues, parseCue), the     *)
(* reveal pass (appendLyricsIfNeeded, appendLyricLine), syncLyrics and the *)
(* seek bar handler.                                                       *)
(*                                                                         *)
(* Times are integers in milliseconds (the code's seconds * 1000), so the  *)
(* code's 2 s look-ahead is 2000 and its 0.1 s slack is 100.  Line indices *)
(* are 0-based as in the code; -1 is "no line".  Text is a sequence of     *)
(* one-character strings.                                                  *)
(***************************************************************************)
EXTENDS Integers, Sequences, FiniteSets, TLC

\* ------------------------------------------------------------ constants
\* curTime >= (cue.start - 2)
LOOKAHEAD == 2000
\* curTime <= cue.end + 0.1
END_SLACK == 100
\* curTime >= wordCue.time - 0.1 for the last word
WORD_END_SLACK == 100
\* setInterval(..., 500)
POLL_INTERVAL == 500
\* setTimeout(() => clearInterval(checkCues), 10000)
MAX_WAIT == 10000

\* Pending grace timers (setTimeout(..., 100)) at any one time.
MaxTimers == 1

\* ------------------------------------------------------------ text helpers
DigitChars == <<"0", "1", "2", "3", "4", "5", "6", "7", "8", "9">>

IsDigit(c) == \E n \in 1..10 : DigitChars[n] = c

DigitVal(c) == (CHOOSE n \in 1..10 : DigitChars[n] = c) - 1

\* \s of the regular expressions and of String.prototype.trim
IsSpace(c) == c \in {" ", "\n", "\t"}

RECURSIVE TrimLeft(_)
TrimLeft(s) ==
  IF s # <<>> /\ IsSpace(Head(s)) THEN TrimLeft(Tail(s)) ELSE s

RECURSIVE TrimRight(_)
TrimRight(s) ==
  IF s # <<>> /\ IsSpace(s[Len(s)]) THEN TrimRight(SubSeq(s, 1, Len(s) - 1)) ELSE s

\* String.prototype.trim
Trim(s) == TrimRight(TrimLeft(s))

\* parseInt(s, 10): the value of the leading run of decimal digits; an
\* empty run is NaN, which the callers below never meet (value 0 here).
RECURSIVE ParseIntFrom(_, _)
ParseIntFrom(s, acc) ==
  IF s # <<>> /\ IsDigit(Head(s))
  THEN ParseIntFrom(Tail(s), acc * 10 + DigitVal(Head(s)))
  ELSE acc

ParseInt(s) == ParseIntFrom(s, 0)

\* The index of the first c in s at or after position k, 0 when none.
RECURSIVE IndexOf(_, _, _)
IndexOf(s, c, k) ==
  IF k > Len(s) THEN 0 ELSE IF s[k] = c THEN k ELSE IndexOf(s, c, k + 1)

\* String.prototype.split(':')
RECURSIVE SplitColon(_)
SplitColon(s) ==
  LET p == IndexOf(s, ":", 1)
  IN IF p = 0 THEN <<s>>
     ELSE <<SubSeq(s, 1, p - 1)>> \o SplitColon(SubSeq(s, p + 1, Len(s)))

\* The first three fraction digits of f as thousandths ("5" is 500).
Millis(f) ==
  LET d(i) == IF i <= Len(f) /\ IsDigit(f[i]) THEN DigitVal(f[i]) ELSE 0
  IN d(1) * 100 + d(2) * 10 + d(3)

\* parseFloat("SS.mmm"), in milliseconds
ParseFloat(s) ==
  LET p == IndexOf(s, ".", 1)
  IN IF p = 0 THEN ParseInt(s) * 1000
     ELSE ParseInt(SubSeq(s, 1, p - 1)) * 1000 + Millis(SubSeq(s, p + 1, Len(s)))

\* timeToSeconds that leaves the hours out.
timeToSecondsNoHours(timeStr) ==
  LET parts == SplitColon(timeStr)
  IN IF Len(parts) = 3
     THEN ParseInt(parts[2]) * 60 * 1000 + ParseFloat(parts[3])
     ELSE IF Len(parts) = 2
     THEN ParseInt(parts[1]) * 60 * 1000 + ParseFloat(parts[2])
     ELSE 0

timeToSeconds(timeStr) ==
  LET parts == SplitColon(timeStr)
  IN IF Len(parts) = 3
     THEN ParseInt(parts[1]) * 3600 * 1000 + ParseInt(parts[2]) * 60 * 1000
          + ParseFloat(parts[3])
     ELSE IF Len(parts) = 2
     THEN ParseInt(parts[1]) * 60 * 1000 + ParseFloat(parts[2])
     ELSE 0

\* /<(\d{2}:\d{2}:\d{2}\.\d{3})>([^<]+)/ matches at position j of text
StampAt(text, j) ==
  /\ j + 13 <= Len(text)
  /\ text[j] = "<"
  /\ IsDigit(text[j + 1]) /\ IsDigit(text[j + 2])
  /\ text[j + 3] = ":"
  /\ IsDigit(text[j + 4]) /\ IsDigit(text[j + 5])
  /\ text[j + 6] = ":"
  /\ IsDigit(text[j + 7]) /\ IsDigit(text[j + 8])
  /\ text[j + 9] = "."
  /\ IsDigit(text[j + 10]) /\ IsDigit(text[j + 11]) /\ IsDigit(text[j + 12])
  /\ text[j + 13] = ">"

MatchAt(text, j) ==
  /\ StampAt(text, j)
  /\ j + 14 <= Len(text)
  /\ text[j + 14] # "<"

\* The end of the greedy [^<]+ run that starts at k.
RECURSIVE RunEnd(_, _)
RunEnd(text, k) ==
  IF k + 1 <= Len(text) /\ text[k + 1] # "<" THEN RunEnd(text, k + 1) ELSE k

\* wordRegex.exec(text) from lastIndex on: the words of every match, in order.
\* found is the code's foundWords.
RECURSIVE ExecLoop(_, _, _)
ExecLoop(text, from, acc) ==
  LET js == {j \in from..Len(text) : MatchAt(text, j)}
  IN IF js = {} THEN acc
     ELSE LET j == CHOOSE x \in js : \A y \in js : x <= y
              e == RunEnd(text, j + 14)
              wordText == Trim(SubSeq(text, j + 14, e))
              w == [time |-> timeToSeconds(SubSeq(text, j + 1, j + 12)),
                    text |-> wordText]
          IN ExecLoop(text, e + 1,
                      [found |-> TRUE,
                       words |-> IF wordText # <<>> THEN Append(acc.words, w)
                                 ELSE acc.words])

\* text.split(' '): a split at every single blank that keeps the empty tokens.
RECURSIVE SplitEach(_)
SplitEach(text) ==
  LET sp == {k \in 1..Len(text) : IsSpace(text[k])}
  IN IF sp = {} THEN <<text>>
     ELSE LET e == CHOOSE x \in sp : \A y \in sp : x <= y
          IN <<SubSeq(text, 1, e - 1)>> \o SplitEach(SubSeq(text, e + 1, Len(text)))

\* text.split(/\s+/).filter(w => w.trim())
RECURSIVE SplitWords(_)
SplitWords(text) ==
  LET s == TrimLeft(text)
  IN IF s = <<>> THEN <<>>
     ELSE LET sp == {k \in 1..Len(s) : IsSpace(s[k])}
              e == IF sp = {} THEN Len(s) + 1
                   ELSE CHOOSE x \in sp : \A y \in sp : x <= y
          IN <<SubSeq(s, 1, e - 1)>> \o SplitWords(SubSeq(s, e, Len(s)))

parseCue(cue, cueIndex) ==
  LET text == cue.text
      m == ExecLoop(text, 1, [found |-> FALSE, words |-> <<>>])
      fallback == SplitWords(text)
  IN [index |-> cueIndex,
      start |-> cue.startTime,
      end |-> cue.endTime,
      words |-> IF ~m.found /\ Trim(text) # <<>>
                THEN [k \in 1..Len(fallback) |->
                        [time |-> cue.startTime, text |-> Trim(fallback[k])]]
                ELSE m.words]

\* ------------------------------------------------------------ cue data
Two(n) == <<DigitChars[(n \div 10) + 1], DigitChars[(n % 10) + 1]>>

Three(n) == <<DigitChars[(n \div 100) + 1]>> \o Two(n % 100)

\* The text of a marker <HH:MM:SS.mmm>
Stamp(h, m, s, ms) ==
  <<"<">> \o Two(h) \o <<":">> \o Two(m) \o <<":">> \o Two(s) \o <<".">>
  \o Three(ms) \o <<">">>

\* track.cues of the two text tracks the media can carry, each in text track
\* cue order (ascending start time).  TrackA: the adjacent cues [0,5] and
\* [5,10], whose windows overlap by the end slack, and a whitespace-only cue
\* between them.  TrackB: the single cue {10, 14, Hello at 10.0, world at 11.5}.
TrackA ==
  << [startTime |-> 0, endTime |-> 5000,
      text |-> Stamp(0, 0, 0, 0) \o <<"a", " ">> \o Stamp(0, 0, 3, 0) \o <<"b">>],
     [startTime |-> 4000, endTime |-> 5000, text |-> <<" ", " ">>],
     [startTime |-> 5000, endTime |-> 10000, text |-> <<"c", " ", "d">>] >>

TrackB ==
  << [startTime |-> 10000, endTime |-> 14000,
      text |-> Stamp(0, 0, 10, 0) \o <<"H", "e", "l", "l", "o", " ">>
               \o Stamp(0, 0, 11, 500) \o <<"w", "o", "r", "l", "d">>] >>

Catalogue == <<TrackA, TrackB>>

TrackIds == DOMAIN Catalogue

\* The parsed lines of a cue list: what loadAllCues leaves in allCues.
RECURSIVE ParseAll(_, _)
ParseAll(cues, i) ==
  IF i >= Len(cues) THEN <<>>
  ELSE LET parsedLine == parseCue(cues[i + 1], i)
       IN (IF Len(parsedLine.words) > 0 THEN <<parsedLine>> ELSE <<>>)
          \o ParseAll(cues, i + 1)

\* What loadAllCues leaves in allCues for each text track of the catalogue.
LineLists == <<ParseAll(Catalogue[1], 0), ParseAll(Catalogue[2], 0)>>

\* The times a tick or a seek can carry, in ms.  For TrackA: 0 (line 0
\* starts), 3000 (line 1 is revealed, word b is sung), 5100 (the windows of
\* lines 0 and 1 both hold it), 7000 and 9000 (line 1 alone), later (none).
\* For TrackB: 9000 (revealed, not active), 10000 (active), 11400 (the last
\* word's slack), 11500, 14050 (inside the end slack), 14101 (past it).
Times == {0, 3000, 5100, 7000, 9000, 10000, 11400, 11500, 14050, 14101}

\* The seek targets: before the reveal of TrackA's line 1 (0), exactly its
\* start minus the look-ahead (3000), inside that line (7000), and past the
\* reveal of TrackB's line (9000).
SeekTimes == {0, 3000, 7000, 9000}

\* ------------------------------------------------------------ state
VARIABLES
  textTracks,          \* audio.textTracks: the ids of the tracks of the media
  hasCues,             \* the tracks whose track.cues is non-empty by now
  setupDone,           \* setupTextTracks has run
  listening,           \* the tracks with a 'load' listener
  checkCues,           \* per track: the setInterval poll, "none", "running", "cleared"
  elapsed,             \* poll periods of POLL_INTERVAL elapsed since setupTextTracks,
                       \* kept while a poll runs (0 once none does)
  fired,               \* the running polls that have fired in the current period
  allCues,             \* let allCues
  displayedCues,       \* let displayedCues
  currentLyricIndex,   \* let currentLyricIndex
  previousLyricIndex,  \* let previousLyricIndex
  placeholder,         \* lyricsDisplay: "none", "noLyrics" or "playToSee"
  lyricsLines,         \* lyricsDisplay: the line elements, in document order
  timers,              \* pending grace timeouts, oldest first: the position in
                       \* lyricsLines of the element each holds, 0 once detached
  lastOp,              \* history: the handler that ran last
  lastTime,            \* history: the time it was given (a tick or a seek), else -1
  tickTime,            \* history: the time of the latest tick since the cues
                       \* were loaded, -1 when there was none
  maxTick,             \* history: the greatest time of a tick since the cues
                       \* were loaded, -1 when there was none
  trackCues,           \* track.cues as far as the loop of loadAllCues has read it
                       \* (cue loading alone, LoadSpec)
  parsedCue,           \* const parsedCue of that loop: <<>> or the one record
  cuePieces,           \* history: the pieces the text of each cue of trackCues
                       \* was written from
  stage                \* history: how many ticks of ScenarioTicks have run, in
                       \* order and alone, on the freshly loaded TrackB

vars == <<textTracks, hasCues, setupDone, listening, checkCues, elapsed, fired,
          allCues, displayedCues, currentLyricIndex, previousLyricIndex,
          placeholder, lyricsLines, timers, lastOp, lastTime, tickTime, maxTick,
          trackCues, parsedCue, cuePieces, stage>>

loadVars == <<trackCues, parsedCue, cuePieces>>

pollVars == <<textTracks, hasCues, setupDone, listening, checkCues, elapsed, fired>>

\* The lyrics state as one value, for the operators below.
Engine ==
  [allCues |-> allCues, displayedCues |-> displayedCues,
   currentLyricIndex |-> currentLyricIndex,
   previousLyricIndex |-> previousLyricIndex,
   placeholder |-> placeholder, lyricsLines |-> lyricsLines, timers |-> timers]

SetEngine(E) ==
  /\ allCues' = E.allCues
  /\ displayedCues' = E.displayedCues
  /\ currentLyricIndex' = E.currentLyricIndex
  /\ previousLyricIndex' = E.previousLyricIndex
  /\ placeholder' = E.placeholder
  /\ lyricsLines' = E.lyricsLines
  /\ timers' = E.timers

\* ------------------------------------------------------------ the display
\* document.getElementById(`cue-${index}`): the position of the first element
\* with that id, 0 for null.
GetElementById(lines, index) ==
  LET ps == {p \in DOMAIN lines : lines[p].id = index}
  IN IF ps = {} THEN 0 ELSE CHOOSE p \in ps : \A q \in ps : p <= q

appendLyricLine(E, cue, index) ==
  LET lineDiv == [id |-> index, active |-> FALSE, played |-> FALSE,
                  words |-> [w \in DOMAIN cue.words |-> FALSE]]
  IN [E EXCEPT !.placeholder = IF @ = "playToSee" THEN "none" ELSE @,
               !.lyricsLines = Append(@, lineDiv)]

\* allCues.forEach of appendLyricsIfNeeded, from index on
RECURSIVE AppendFrom(_, _, _)
AppendFrom(E, curTime, index) ==
  IF index >= Len(E.allCues) THEN E
  ELSE LET cue == E.allCues[index + 1]
           shouldDisplay == curTime >= cue.start - LOOKAHEAD
           alreadyDisplayed == index \in E.displayedCues
           E1 == IF shouldDisplay /\ ~alreadyDisplayed
                 THEN [appendLyricLine(E, cue, index)
                         EXCEPT !.displayedCues = @ \cup {index}]
                 ELSE E
       IN AppendFrom(E1, curTime, index + 1)

\* appendLyricsIfNeeded without the alreadyDisplayed test.
RECURSIVE AppendAlwaysFrom(_, _, _)
AppendAlwaysFrom(E, curTime, index) ==
  IF index >= Len(E.allCues) THEN E
  ELSE LET cue == E.allCues[index + 1]
           E1 == IF curTime >= cue.start - LOOKAHEAD
                 THEN [appendLyricLine(E, cue, index)
                         EXCEPT !.displayedCues = @ \cup {index}]
                 ELSE E
       IN AppendAlwaysFrom(E1, curTime, index + 1)

appendLyricsAlways(E, curTime) ==
  IF Len(E.allCues) = 0 THEN E ELSE AppendAlwaysFrom(E, curTime, 0)

\* appendLyricsIfNeeded without the look-ahead: a line is revealed at its start.
appendLyricsAtStart(E, curTime) ==
  IF Len(E.allCues) = 0 THEN E ELSE AppendFrom(E, curTime - LOOKAHEAD, 0)

appendLyricsIfNeeded(E, curTime) ==
  IF Len(E.allCues) = 0 THEN E ELSE AppendFrom(E, curTime, 0)

\* FindActive without the break: the last displayed cue whose window holds curTime.
FindActiveLast(cues, displayed, curTime) ==
  LET hits == {i \in 0..(Len(cues) - 1) :
                 /\ i \in displayed
                 /\ curTime >= cues[i + 1].start
                 /\ curTime <= cues[i + 1].end + END_SLACK}
  IN IF hits = {} THEN -1 ELSE CHOOSE i \in hits : \A k \in hits : i >= k

\* FindActive without the end slack: the window is [start, end].
FindActiveNoSlack(cues, displayed, curTime) ==
  LET hits == {i \in 0..(Len(cues) - 1) :
                 /\ i \in displayed
                 /\ curTime >= cues[i + 1].start
                 /\ curTime <= cues[i + 1].end}
  IN IF hits = {} THEN -1 ELSE CHOOSE i \in hits : \A k \in hits : i <= k

\* The for loop of syncLyrics: the first displayed cue whose window holds
\* curTime, -1 when there is none.
FindActive(cues, displayed, curTime) ==
  LET hits == {i \in 0..(Len(cues) - 1) :
                 /\ i \in displayed
                 /\ curTime >= cues[i + 1].start
                 /\ curTime <= cues[i + 1].end + END_SLACK}
  IN IF hits = {} THEN -1 ELSE CHOOSE i \in hits : \A k \in hits : i <= k

\* The line the completion branch of syncLyrics acts on.
CompletedLine(E, activeIndex) == E.previousLyricIndex

\* if (activeIndex !== currentLyricIndex) { ... }
ChangeActive(E, activeIndex) ==
  LET done == CompletedLine(E, activeIndex)
      prevElement == GetElementById(E.lyricsLines, done)
      E1 == IF done # -1 /\ done # activeIndex /\ prevElement # 0
            THEN [E EXCEPT !.lyricsLines[prevElement].words =
                               [w \in DOMAIN @ |-> TRUE],
                           !.timers = Append(@, prevElement)]
            ELSE E
      activeElement == GetElementById(E1.lyricsLines, activeIndex)
      E2 == IF activeIndex # -1 /\ activeElement # 0
            THEN [E1 EXCEPT !.lyricsLines[activeElement].active = TRUE,
                            !.lyricsLines[activeElement].played = FALSE]
            ELSE E1
  IN [E2 EXCEPT !.previousLyricIndex = E.currentLyricIndex,
                !.currentLyricIndex = activeIndex]

\* ShouldHighlight for the word being sung only.
ShouldHighlightCurrentOnly(cue, i, curTime) ==
  /\ curTime >= cue.words[i].time
  /\ i = Len(cue.words) \/ curTime < cue.words[i + 1].time

\* words[i].classList.toggle('active', shouldHighlight)
ShouldHighlight(cue, i, curTime) ==
  \/ curTime >= cue.words[i].time
  \/ (i = Len(cue.words) /\ curTime >= cue.words[i].time - WORD_END_SLACK)

HighlightWords(E, activeIndex, curTime) ==
  LET activeElement == GetElementById(E.lyricsLines, activeIndex)
  IN IF activeIndex # -1 /\ activeElement # 0
     THEN LET cue == E.allCues[activeIndex + 1]
          IN [E EXCEPT !.lyricsLines[activeElement].words =
                [w \in DOMAIN @ |->
                   IF w \in DOMAIN cue.words
                   THEN ShouldHighlight(cue, w, curTime) ELSE @[w]]]
     ELSE E

syncLyrics(E, curTime) ==
  IF Len(E.allCues) = 0 THEN E
  ELSE LET E1 == appendLyricsIfNeeded(E, curTime)
           activeIndex == FindActive(E1.allCues, E1.displayedCues, curTime)
           E2 == IF activeIndex # E1.currentLyricIndex
                 THEN ChangeActive(E1, activeIndex) ELSE E1
       IN HighlightWords(E2, activeIndex, curTime)

\* allCues.forEach of the seek bar handler, from index on
RECURSIVE SeekFrom(_, _, _)
SeekFrom(E, newTime, index) ==
  IF index >= Len(E.allCues) THEN E
  ELSE LET cue == E.allCues[index + 1]
           E1 == IF newTime >= cue.start - LOOKAHEAD /\ index \notin E.displayedCues
                 THEN [appendLyricLine(E, cue, index)
                         EXCEPT !.displayedCues = @ \cup {index}]
                 ELSE E
       IN SeekFrom(E1, newTime, index + 1)

\* seekInput that first hides the lines that start after the look-ahead.
seekInputReset(E, newTime) ==
  LET E0 == [E EXCEPT !.displayedCues =
               {i \in @ : i < Len(E.allCues)
                          /\ newTime >= E.allCues[i + 1].start - LOOKAHEAD}]
  IN IF Len(E.allCues) > 0 THEN SeekFrom(E0, newTime, 0) ELSE E

\* seekInput that reveals without the look-ahead.
seekInputNoLookahead(E, newTime) ==
  IF Len(E.allCues) > 0 THEN SeekFrom(E, newTime - LOOKAHEAD, 0) ELSE E

\* seekInput followed by syncLyrics(newTime).
seekInputSync(E, newTime) ==
  syncLyrics(IF Len(E.allCues) > 0 THEN SeekFrom(E, newTime, 0) ELSE E, newTime)

\* seekInput that at once marks played the active line whose window does not
\* hold newTime.
seekInputComplete(E, newTime) ==
  LET E1 == IF Len(E.allCues) > 0 THEN SeekFrom(E, newTime, 0) ELSE E
      p == GetElementById(E1.lyricsLines, E1.currentLyricIndex)
  IN IF /\ E1.currentLyricIndex # -1
        /\ p # 0
        /\ FindActive(E1.allCues, E1.displayedCues, newTime) # E1.currentLyricIndex
     THEN [E1 EXCEPT !.lyricsLines[p].active = FALSE,
                     !.lyricsLines[p].played = TRUE,
                     !.lyricsLines[p].words = [w \in DOMAIN @ |-> FALSE]]
     ELSE E1

\* seekBar 'input' handler, after audio.currentTime = newTime
seekInput(E, newTime) ==
  IF Len(E.allCues) > 0 THEN SeekFrom(E, newTime, 0) ELSE E

\* The grace timeout's callback on the element at position p.
GraceCallback(E, p) ==
  LET E1 == [E EXCEPT !.timers = Tail(@)]
  IN IF p = 0 THEN E1
     ELSE [E1 EXCEPT !.lyricsLines[p].active = FALSE,
                     !.lyricsLines[p].played = TRUE,
                     !.lyricsLines[p].words = [w \in DOMAIN @ |-> FALSE]]

\* loadAllCues(track): the elements lyricsDisplay held are detached by
\* innerHTML = ..., so the pending timeouts hold detached elements.
loadAllCues(E, track) ==
  [E EXCEPT !.allCues = LineLists[track],
            !.placeholder = "playToSee",
            !.lyricsLines = <<>>,
            !.timers = [k \in DOMAIN @ |-> 0]]

\* ------------------------------------------------------------ cue arrival
\* The number of poll periods after which the clearing timeout is due.
MaxPolls == MAX_WAIT \div POLL_INTERVAL

\* The for loop of setupTextTracks, from the track at position i (0-based) on.
\* S holds the lyrics state E, listening and checkCues.
RECURSIVE SetupFrom(_, _)
SetupFrom(S, i) ==
  IF i >= Len(textTracks) THEN S
  ELSE LET track == textTracks[i + 1]
           S1 == IF track \in hasCues
                 THEN [S EXCEPT !.E = loadAllCues(@, track)]
                 ELSE [S EXCEPT !.listening = @ \cup {track},
                                !.checkCues[track] = "running"]
       IN SetupFrom(S1, i + 1)

\* The media's text track cues become available (the environment).
CuesArrive(track) ==
  /\ \E i \in DOMAIN textTracks : textTracks[i] = track
  /\ track \notin hasCues
  /\ hasCues' = hasCues \cup {track}
  /\ UNCHANGED <<textTracks, setupDone, listening, checkCues, elapsed, fired,
                 allCues, displayedCues, currentLyricIndex, previousLyricIndex,
                 placeholder, lyricsLines, timers, lastOp, lastTime, tickTime, maxTick,
                 loadVars, stage>>

\* setupTextTracks, 500 ms after 'loadedmetadata'
SetupTextTracks ==
  /\ ~setupDone
  /\ setupDone' = TRUE
  /\ IF Len(textTracks) = 0
     THEN /\ SetEngine([Engine EXCEPT !.placeholder = "noLyrics",
                                      !.lyricsLines = <<>>])
          /\ UNCHANGED <<listening, checkCues>>
     ELSE LET S == SetupFrom([E |-> Engine, listening |-> listening,
                              checkCues |-> checkCues], 0)
          IN /\ SetEngine(S.E)
             /\ listening' = S.listening
             /\ checkCues' = S.checkCues
  /\ lastOp' = "setup"
  /\ lastTime' = -1
  /\ tickTime' = -1
  /\ maxTick' = -1
  /\ stage' = 0
  /\ UNCHANGED <<textTracks, hasCues, elapsed, fired, loadVars>>

\* track 'load' listener
TrackLoad(track) ==
  /\ track \in listening
  /\ SetEngine(IF track \in hasCues THEN loadAllCues(Engine, track) ELSE Engine)
  /\ lastOp' = "trackLoad"
  /\ lastTime' = -1
  /\ tickTime' = IF track \in hasCues THEN -1 ELSE tickTime
  /\ maxTick' = IF track \in hasCues THEN -1 ELSE maxTick
  /\ stage' = 0
  /\ UNCHANGED <<pollVars, loadVars>>

\* POLL_INTERVAL passes while a poll runs: every running poll fires once per
\* period, and the clearing timeout is due with the period numbered MaxPolls.
PeriodElapses ==
  /\ elapsed < MaxPolls
  /\ \E track \in TrackIds : checkCues[track] = "running"
  /\ elapsed = 0 \/ \A track \in TrackIds : checkCues[track] = "running" => track \in fired
  /\ elapsed' = elapsed + 1
  /\ fired' = {}
  /\ UNCHANGED <<textTracks, hasCues, setupDone, listening, checkCues,
                 allCues, displayedCues, currentLyricIndex, previousLyricIndex,
                 placeholder, lyricsLines, timers, lastOp, lastTime, tickTime, maxTick,
                 loadVars, stage>>

\* Clock and fired set once the polls are as in cc: nothing reads them when
\* no poll runs, so they are dropped then.
SetClock(cc, f) ==
  LET running == {track \in TrackIds : cc[track] = "running"}
  IN /\ elapsed' = IF running = {} THEN 0 ELSE elapsed
     /\ fired' = f \cap running

\* The setInterval callback of checkCues
PollFire(track) ==
  /\ checkCues[track] = "running"
  /\ elapsed >= 1
  /\ track \notin fired
  /\ IF track \in hasCues
     THEN /\ checkCues' = [checkCues EXCEPT ![track] = "cleared"]
          /\ SetEngine(loadAllCues(Engine, track))
     ELSE /\ UNCHANGED checkCues
          /\ SetEngine(Engine)
  /\ SetClock(checkCues', fired \cup {track})
  /\ lastOp' = "poll"
  /\ lastTime' = -1
  /\ tickTime' = IF track \in hasCues THEN -1 ELSE tickTime
  /\ maxTick' = IF track \in hasCues THEN -1 ELSE maxTick
  /\ stage' = 0
  /\ UNCHANGED <<textTracks, hasCues, setupDone, listening, loadVars>>

\* PollTimeout whose clearInterval is lost: the poll keeps running.
PollTimeoutLost(track) ==
  /\ checkCues[track] = "running"
  /\ elapsed = MaxPolls
  /\ UNCHANGED vars

\* setTimeout(() => clearInterval(checkCues), 10000)
PollTimeout(track) ==
  /\ checkCues[track] = "running"
  /\ elapsed = MaxPolls
  /\ checkCues' = [checkCues EXCEPT ![track] = "cleared"]
  /\ SetClock(checkCues', fired)
  /\ UNCHANGED <<textTracks, hasCues, setupDone, listening,
                 allCues, displayedCues, currentLyricIndex, previousLyricIndex,
                 placeholder, lyricsLines, timers, lastOp, lastTime, tickTime, maxTick,
                 loadVars, stage>>

\* ------------------------------------------------------------ playback
\* Playback is observed once no poll is running: a poll and playback meet
\* only in loadAllCues, which the 'load' listener runs at any later moment too.
PollsSettled == \A track \in TrackIds : checkCues[track] # "running"

\* The ticks of the scenario of the cue {10, 14, Hello at 10.0, world at
\* 11.5}: 9.0, 10.0, 11.5 and 14.05.
ScenarioTicks == <<9000, 10000, 11500, 14050>>

\* A tick at curTime is the first of the scenario: it runs on the line list
\* of TrackB right after the load of a fresh session.
ScenarioStart(curTime) ==
  /\ curTime = ScenarioTicks[1]
  /\ allCues = LineLists[2]
  /\ displayedCues = {}
  /\ currentLyricIndex = -1
  /\ previousLyricIndex = -1

\* A tick at curTime is the next one of the scenario under way.
ScenarioStep(curTime) ==
  /\ stage \in 1..(Len(ScenarioTicks) - 1)
  /\ curTime = ScenarioTicks[stage + 1]

\* audio 'timeupdate' with audio.currentTime = curTime
TimeUpdate(curTime) ==
  LET E == syncLyrics(Engine, curTime)
  IN /\ PollsSettled
     /\ Len(E.timers) <= MaxTimers
     /\ SetEngine(E)
     /\ lastOp' = "tick"
     /\ lastTime' = curTime
     /\ tickTime' = curTime
     /\ maxTick' = IF curTime > maxTick THEN curTime ELSE maxTick
     /\ stage' = IF ScenarioStep(curTime) THEN stage + 1
                 ELSE IF ScenarioStart(curTime) THEN 1 ELSE 0
     /\ UNCHANGED <<pollVars, loadVars>>

\* seekBar 'input' to newTime
SeekBarInput(newTime) ==
  /\ PollsSettled
  /\ SetEngine(seekInput(Engine, newTime))
  /\ lastOp' = "seek"
  /\ lastTime' = newTime
  /\ stage' = 0
  /\ UNCHANGED <<pollVars, tickTime, maxTick, loadVars>>

\* The oldest grace timeout fires.
GraceTimeout ==
  /\ timers # <<>>
  /\ SetEngine(GraceCallback(Engine, Head(timers)))
  /\ lastOp' = "timer"
  /\ lastTime' = -1
  /\ stage' = 0
  /\ UNCHANGED <<pollVars, tickTime, maxTick, loadVars>>

\* ------------------------------------------------------------ specification
Init ==
  /\ textTracks \in {[k \in 1..n |-> k] : n \in 0..Len(Catalogue)}
  /\ hasCues = {}
  /\ setupDone = FALSE
  /\ listening = {}
  /\ checkCues = [track \in TrackIds |-> "none"]
  /\ elapsed = 0
  /\ fired = {}
  /\ allCues = <<>>
  /\ displayedCues = {}
  /\ currentLyricIndex = -1
  /\ previousLyricIndex = -1
  /\ placeholder = "none"
  /\ lyricsLines = <<>>
  /\ timers = <<>>
  /\ lastOp = "init"
  /\ lastTime = -1
  /\ tickTime = -1
  /\ maxTick = -1
  /\ trackCues = <<>>
  /\ parsedCue = <<>>
  /\ cuePieces = <<>>
  /\ stage = 0

Next ==
  \/ \E track \in TrackIds : CuesArrive(track)
  \/ SetupTextTracks
  \/ \E track \in TrackIds : TrackLoad(track)
  \/ PeriodElapses
  \/ \E track \in TrackIds : PollFire(track)
  \/ \E track \in TrackIds : PollTimeout(track)
  \/ \E curTime \in Times : TimeUpdate(curTime)
  \/ \E newTime \in SeekTimes : SeekBarInput(newTime)
  \/ GraceTimeout

Spec == Init /\ [][Next]_vars

\* ------------------------------------------------------------ cue loading alone
\* The cues a text track can carry and the loop of loadAllCues over them, one
\* iteration at a time.  A cue text is written from pieces: a marker
\* <HH:MM:SS.mmm>, a marker <MM:SS.mmm>, a one-letter run of word characters,
\* or a blank.

\* The cues of the track under load.
MaxCues == 2
\* The pieces of all the cue texts of the track together.
MaxPieces == 4

Marker(h, m, s, ms) ==
  [kind |-> "marker", text |-> Stamp(h, m, s, ms),
   time |-> ((h * 60 + m) * 60 + s) * 1000 + ms]

\* The text of a marker <MM:SS.mmm>
ShortMarker(m, s, ms) ==
  [kind |-> "short",
   text |-> <<"<">> \o Two(m) \o <<":">> \o Two(s) \o <<".">> \o Three(ms) \o <<">">>,
   time |-> (m * 60 + s) * 1000 + ms]

WordPiece(c) == [kind |-> "word", text |-> <<c>>, time |-> -1]

Blank == [kind |-> "space", text |-> <<" ">>, time |-> -1]

PieceSet ==
  {Marker(0, 0, 1, 0), Marker(1, 1, 2, 500), ShortMarker(1, 3, 0),
   WordPiece("a"), WordPiece("b"), Blank}

\* The texts of at most n pieces, as piece sequences.
PieceSeqs(n) == UNION {[1..k -> PieceSet] : k \in 0..n}

\* cue.text written from pieces
RECURSIVE Render(_)
Render(pieces) ==
  IF pieces = <<>> THEN <<>> ELSE Head(pieces).text \o Render(Tail(pieces))

RECURSIVE PiecesUsed(_)
PiecesUsed(texts) ==
  IF texts = <<>> THEN 0 ELSE Len(Head(texts)) + PiecesUsed(Tail(texts))

\* Cue i of a track: text track cues come in ascending start order.
CueOf(pieces, i) ==
  [startTime |-> 2000 * (i + 1), endTime |-> 2000 * (i + 1) + 1500,
   text |-> Render(pieces)]

\* allCues.push(parsedCue) without the test of parsedCue.words.length.
PushAlways(lines, parsed) == Append(lines, parsed)

\* if (parsedCue.words.length > 0) allCues.push(parsedCue)
PushParsed(lines, parsed) ==
  IF Len(parsed.words) > 0 THEN Append(lines, parsed) ELSE lines

\* One iteration of the for loop of loadAllCues, on a cue written from pieces.
LoadStep(pieces) ==
  LET i == Len(trackCues)
      cue == CueOf(pieces, i)
      parsed == parseCue(cue, i)
  IN /\ i < MaxCues
     /\ PiecesUsed(cuePieces) + Len(pieces) <= MaxPieces
     /\ trackCues' = Append(trackCues, cue)
     /\ cuePieces' = Append(cuePieces, pieces)
     /\ parsedCue' = <<parsed>>
     /\ allCues' = PushParsed(allCues, parsed)
     /\ UNCHANGED <<pollVars, displayedCues, currentLyricIndex, previousLyricIndex,
                    placeholder, lyricsLines, timers, lastOp, lastTime, tickTime,
                    maxTick, stage>>

LoadInit == Init /\ textTracks = <<>>

\* The next cue's text is written from the pieces the track has left.
LoadNext ==
  \E pieces \in PieceSeqs(MaxPieces - PiecesUsed(cuePieces)) : LoadStep(pieces)

LoadSpec == LoadInit /\ [][LoadNext]_vars

\* ------------------------------------------------------------ properties
\* The revealed lines of the current list whose window [start, end + 0.1]
\* holds t.
InWindow(t) ==
  {i \in displayedCues :
     /\ i < Len(allCues)
     /\ allCues[i + 1].start <= t
     /\ t <= allCues[i + 1].end + END_SLACK}

\* The highlighted word positions of the display element of line index, none
\* when the line has no element.
Highlighted(lines, index) ==
  LET p == GetElementById(lines, index)
  IN IF p = 0 THEN {} ELSE {w \in DOMAIN lines[p].words : lines[p].words[w]}

\* C1 as stated: after a tick at t on a loaded line list the active index is
\* the GREATEST revealed index whose window holds t, none when there is none.
C1_GreatestInWindow ==
  (lastOp = "tick" /\ allCues # <<>>) =>
    IF InWindow(lastTime) = {} THEN currentLyricIndex = -1
    ELSE /\ currentLyricIndex \in InWindow(lastTime)
         /\ \A j \in InWindow(lastTime) : currentLyricIndex >= j

\* C1 amended: after a tick at t on a loaded line list the active index is
\* the LEAST revealed index whose window holds t, none when there is none.
C1_LeastInWindow ==
  (lastOp = "tick" /\ allCues # <<>>) =>
    IF InWindow(lastTime) = {} THEN currentLyricIndex = -1
    ELSE /\ currentLyricIndex \in InWindow(lastTime)
         /\ \A j \in InWindow(lastTime) : currentLyricIndex <= j

\* C1 witness: a tick whose time lies in the windows of two revealed lines
\* has made the lower one active.
C1_Witness ==
  /\ lastOp = "tick"
  /\ Cardinality(InWindow(lastTime)) >= 2
  /\ currentLyricIndex = 0

\* C2 as stated: the active index is none or the index of a revealed line of
\* the current line list.
C2_ActiveIsRevealedLine ==
  \/ currentLyricIndex = -1
  \/ (currentLyricIndex \in displayedCues /\ currentLyricIndex < Len(allCues))

\* C3: no step removes a member of the revealed set, whatever the order of
\* the tick times and whether a seek goes forward or backward.
C3_RevealNeverShrinks == [][displayedCues \subseteq displayedCues']_vars

\* C3 witness: a seek back to 0 has left revealed, with its display element,
\* a line whose start lies beyond the look-ahead of 0.
C3_Witness ==
  /\ lastOp = "seek"
  /\ lastTime = 0
  /\ Len(allCues) = 2
  /\ allCues[2].start - LOOKAHEAD > lastTime
  /\ 1 \in displayedCues
  /\ GetElementById(lyricsLines, 1) # 0
  /\ maxTick > lastTime

\* C4: a seek to T leaves revealed exactly the lines revealed before it and
\* the lines of the list with start <= T + 2.
C4_SeekReveal ==
  [][lastOp' = "seek" =>
       displayedCues' = displayedCues \cup
         {i \in 0..(Len(allCues) - 1) : allCues[i + 1].start <= lastTime' + LOOKAHEAD}]_vars

\* C4 witness: with no tick since the cues were loaded, a seek to 3 has
\* revealed line 0 and the line that starts at 5 (5 = 3 + 2).
C4_Witness ==
  /\ lastOp = "seek"
  /\ lastTime = 3000
  /\ tickTime = -1
  /\ Len(allCues) = 2
  /\ allCues[2].start = lastTime + LOOKAHEAD
  /\ {lyricsLines[p].id : p \in DOMAIN lyricsLines} = {0, 1}
  /\ {0, 1} \subseteq displayedCues

\* C5 as stated: a tick that changes the active line from p to anything else
\* starts the completion of p itself: every word of p is forced to sung and a
\* grace timeout is pending on p.
C5_CompletesVacatedLine ==
  [][(/\ lastOp' = "tick"
      /\ currentLyricIndex # -1
      /\ currentLyricIndex' # currentLyricIndex
      /\ GetElementById(lyricsLines, currentLyricIndex) # 0) =>
       LET p == GetElementById(lyricsLines, currentLyricIndex)
       IN /\ \A w \in DOMAIN lyricsLines'[p].words : lyricsLines'[p].words[w]
          /\ \E k \in DOMAIN timers' : timers'[k] = p]_vars

\* C6 as stated: right after a seek to T the active index and the highlighted
\* words are those that syncLyrics(T) computes from the state before the seek.
C6_SeekEqualsTick ==
  [][lastOp' = "seek" =>
       LET S == syncLyrics(Engine, lastTime')
       IN /\ currentLyricIndex' = S.currentLyricIndex
          /\ \A i \in 0..(Len(allCues) - 1) :
               Highlighted(lyricsLines', i) = Highlighted(S.lyricsLines, i)]_vars

\* C6 amended: a seek runs the reveal pass only: it leaves the active and the
\* previous index, the pending grace timeouts and every line already displayed
\* (marks and word highlights) as they were.
C6_SeekOnlyReveals ==
  [][lastOp' = "seek" =>
       /\ currentLyricIndex' = currentLyricIndex
       /\ previousLyricIndex' = previousLyricIndex
       /\ timers' = timers
       /\ Len(lyricsLines') >= Len(lyricsLines)
       /\ \A p \in DOMAIN lyricsLines : lyricsLines'[p] = lyricsLines[p]]_vars

\* C6 witness: a seek has run and the active index is not the one a tick at
\* the seek time computes.
C6_Witness ==
  /\ lastOp = "seek"
  /\ allCues # <<>>
  /\ syncLyrics(Engine, lastTime).currentLyricIndex # currentLyricIndex

\* C7 as stated: after a seek to a time outside the window of the line that
\* was active, that line is marked played and no longer active.
C7_SeekCompletesAtOnce ==
  (/\ lastOp = "seek"
   /\ currentLyricIndex # -1
   /\ currentLyricIndex \notin InWindow(lastTime)
   /\ GetElementById(lyricsLines, currentLyricIndex) # 0) =>
    LET p == GetElementById(lyricsLines, currentLyricIndex)
    IN lyricsLines[p].played /\ ~lyricsLines[p].active

\* C7 amended: a line is marked played only by a grace timeout: no seek and
\* no tick marks a line played within its own reaction.
C7_PlayedOnlyByGraceTimeout ==
  [][\A p \in DOMAIN lyricsLines \cap DOMAIN lyricsLines' :
       (~lyricsLines[p].played /\ lyricsLines'[p].played) => lastOp' = "timer"]_vars

\* C7 witness: cues [0,5] and [5,10], line 0 active; a seek to 7 has revealed
\* both, line 0 still carries the active mark and is not played, line 1 is
\* not active.
C7_Witness ==
  /\ lastOp = "seek"
  /\ lastTime = 7000
  /\ Len(allCues) = 2
  /\ currentLyricIndex = 0
  /\ {0, 1} \subseteq displayedCues
  /\ GetElementById(lyricsLines, 0) # 0
  /\ GetElementById(lyricsLines, 1) # 0
  /\ lyricsLines[GetElementById(lyricsLines, 0)].active
  /\ ~lyricsLines[GetElementById(lyricsLines, 0)].played
  /\ ~lyricsLines[GetElementById(lyricsLines, 1)].active

\* C8 as stated: a tick of any time that keeps the same line active never
\* un-marks a highlighted word of that line.
C8_WordsNeverShrink ==
  [][(/\ lastOp' = "tick"
      /\ allCues' = allCues
      /\ currentLyricIndex # -1
      /\ currentLyricIndex' = currentLyricIndex) =>
       Highlighted(lyricsLines, currentLyricIndex)
         \subseteq Highlighted(lyricsLines', currentLyricIndex)]_vars

\* C8 amended: a tick whose time is not earlier than that of the tick before
\* it and that keeps the same line active never un-marks a highlighted word of
\* that line.
C8_WordsGrowForward ==
  [][(/\ lastOp' = "tick"
      /\ allCues' = allCues
      /\ lastTime' >= tickTime
      /\ currentLyricIndex # -1
      /\ currentLyricIndex' = currentLyricIndex) =>
       Highlighted(lyricsLines, currentLyricIndex)
         \subseteq Highlighted(lyricsLines', currentLyricIndex)]_vars

\* C8 witness: a tick has left a line active with some word highlighted, and
\* a tick not earlier than it keeps that line active and highlights one more.
C8_Witness ==
  /\ lastOp = "tick"
  /\ currentLyricIndex # -1
  /\ Highlighted(lyricsLines, currentLyricIndex) # {}
  /\ \E t \in Times :
       LET S == syncLyrics(Engine, t)
       IN /\ t >= tickTime
          /\ S.currentLyricIndex = currentLyricIndex
          /\ Highlighted(lyricsLines, currentLyricIndex)
               \subseteq Highlighted(S.lyricsLines, currentLyricIndex)
          /\ Highlighted(lyricsLines, currentLyricIndex)
               # Highlighted(S.lyricsLines, currentLyricIndex)

\* No two display elements carry the same line index.
NoDuplicateLines ==
  \A p, q \in DOMAIN lyricsLines : lyricsLines[p].id = lyricsLines[q].id => p = q

\* C9: a tick whose time is equal to or earlier than that of a tick already
\* processed since the cues were loaded changes neither the revealed set nor
\* the displayed lines, and no line index ever has two display elements.
C9_IdempotentReveal ==
  /\ [][(lastOp' = "tick" /\ allCues' = allCues /\ lastTime' <= maxTick) =>
          /\ displayedCues' = displayedCues
          /\ Len(lyricsLines') = Len(lyricsLines)]_vars
  /\ []NoDuplicateLines

\* C9 witness: a tick earlier than one already processed has run with both
\* lines revealed, each with its one display element.
C9_Witness ==
  /\ lastOp = "tick"
  /\ lastTime < maxTick
  /\ Len(allCues) = 2
  /\ displayedCues = {0, 1}
  /\ Len(lyricsLines) = 2

\* C10 as stated: once a line list exists, a further cues-available
\* notification ('load' event, poll hit, second track in setupTextTracks)
\* leaves the line list, the revealed set, the active state and the displayed
\* lines unchanged.
C10_LaterLoadIgnored ==
  [][(lastOp' \in {"trackLoad", "poll", "setup"} /\ allCues # <<>>) =>
       UNCHANGED <<allCues, displayedCues, currentLyricIndex,
                   previousLyricIndex, placeholder, lyricsLines>>]_vars

\* C11 as stated: a cue load that replaces the line list leaves the revealed
\* set empty and the active and the previous index none.
C11_LoadDiscardsState ==
  [][(lastOp' \in {"trackLoad", "poll", "setup"} /\ allCues' # allCues) =>
       /\ displayedCues' = {}
       /\ currentLyricIndex' = -1
       /\ previousLyricIndex' = -1]_vars

\* ------------------------------------------------------------ timers run
\* The browser's timers fire: a poll period passes while a poll runs, every
\* running poll's callback runs in its period, and the clearing timeout runs
\* when it is due.
FairSpec ==
  /\ Spec
  /\ WF_vars(PeriodElapses)
  /\ \A track \in TrackIds : WF_vars(PollFire(track))
  /\ \A track \in TrackIds : WF_vars(PollTimeout(track))

C13_NoLyricsAfterPolling ==
  (setupDone /\ PollsSettled /\ hasCues = {}) => placeholder = "noLyrics"

\* ------------------------------------------------------------ cue text, by pieces
\* The pieces of the cue the loop of loadAllCues read last.
LastPieces == cuePieces[Len(cuePieces)]

NoMarkers(pieces) ==
  \A k \in DOMAIN pieces : pieces[k].kind \notin {"marker", "short"}

\* The whitespace-delimited non-empty tokens of a text, from its pieces: the
\* runs of pieces that are not blanks.  cur is the run being read.
RECURSIVE PieceTokens(_, _)
PieceTokens(pieces, cur) ==
  IF pieces = <<>> THEN (IF cur = <<>> THEN <<>> ELSE <<cur>>)
  ELSE IF Head(pieces).kind = "space"
  THEN (IF cur = <<>> THEN <<>> ELSE <<cur>>) \o PieceTokens(Tail(pieces), <<>>)
  ELSE PieceTokens(Tail(pieces), cur \o Head(pieces).text)

\* The number of leading pieces of one kind.
RECURSIVE Lead(_, _)
Lead(pieces, kind) ==
  IF pieces # <<>> /\ Head(pieces).kind = kind
  THEN 1 + Lead(Tail(pieces), kind) ELSE 0

\* The text is made only of markers each followed by a word (a run of word
\* pieces) and then blanks.
RECURSIVE WellFormed(_)
WellFormed(pieces) ==
  IF pieces = <<>> THEN TRUE
  ELSE /\ Head(pieces).kind = "marker"
       /\ LET w == Lead(Tail(pieces), "word")
              rest == SubSeq(pieces, w + 2, Len(pieces))
              sp == Lead(rest, "space")
          IN w >= 1 /\ WellFormed(SubSeq(rest, sp + 1, Len(rest)))

\* The words such a text was written from, each with the time of its marker.
RECURSIVE MarkedWords(_)
MarkedWords(pieces) ==
  IF pieces = <<>> THEN <<>>
  ELSE LET w == Lead(Tail(pieces), "word")
           rest == SubSeq(pieces, w + 2, Len(pieces))
           sp == Lead(rest, "space")
       IN <<[time |-> Head(pieces).time, text |-> Render(SubSeq(pieces, 2, w + 1))]>>
          \o MarkedWords(SubSeq(rest, sp + 1, Len(rest)))

\* C14: every line of the line list has at least one word, whatever cues the
\* track carried.
C14_NoEmptyLine == \A k \in DOMAIN allCues : Len(allCues[k].words) > 0

\* C14 witness: the second cue of a track, a marker followed only by blanks,
\* parsed to zero words and was not added; the line list holds the first cue.
C14_Witness ==
  /\ Len(trackCues) = 2
  /\ Len(LastPieces) >= 2
  /\ LastPieces[1].kind = "marker"
  /\ \A k \in 2..Len(LastPieces) : LastPieces[k].kind = "space"
  /\ parsedCue[1].words = <<>>
  /\ Len(allCues) = 1
  /\ allCues[1].index = 0

\* C15: a cue text without markers parses to one word per whitespace-delimited
\* non-empty token, in text order, each with the cue's start time.
C15_FallbackWords ==
  (parsedCue # <<>> /\ NoMarkers(LastPieces)) =>
    LET tokens == PieceTokens(LastPieces, <<>>)
    IN parsedCue[1].words =
         [k \in 1..Len(tokens) |->
            [time |-> trackCues[Len(trackCues)].startTime, text |-> tokens[k]]]

\* C15 witness: a text without markers that starts with a blank and holds two
\* tokens has been parsed to two words.
C15_Witness ==
  /\ parsedCue # <<>>
  /\ NoMarkers(LastPieces)
  /\ Len(LastPieces) = 4
  /\ LastPieces[1].kind = "space"
  /\ Len(parsedCue[1].words) = 2
  /\ parsedCue[1].words[1].text # parsedCue[1].words[2].text

\* C16: a cue text made only of markers <HH:MM:SS.mmm> each followed by a word
\* parses to exactly those words, in order, each with the time of its own
\* marker in seconds (here ms).
C16_MarkerRoundTrip ==
  (parsedCue # <<>> /\ WellFormed(LastPieces)) =>
    parsedCue[1].words = MarkedWords(LastPieces)

\* C16 witness: a text of two markers with different times, each followed by
\* a word, has been parsed to two words.
C16_Witness ==
  /\ parsedCue # <<>>
  /\ WellFormed(LastPieces)
  /\ Len(parsedCue[1].words) = 2
  /\ parsedCue[1].words[1].time > 3600000
  /\ parsedCue[1].words[2].time = 1000

\* C20 as stated: every line carries the index of its position in the line
\* list (dense from 0), and the lines are in ascending start order.
C20_IndexIsPosition ==
  /\ \A k \in DOMAIN allCues : allCues[k].index = k - 1
  /\ \A k \in DOMAIN allCues : k > 1 => allCues[k - 1].start <= allCues[k].start

\* ------------------------------------------------------------ one cue, four ticks
\* The display of the single line of TrackB with the given state of its two
\* words.
OneLine(isActive, w1, w2) ==
  <<[id |-> 0, active |-> isActive, played |-> FALSE, words |-> <<w1, w2>>]>>

\* The ticks at 9.0, 10.0 and 11.5 of the cue {10, 14, words at 10.0 and 11.5}:
\* revealed and not active, then active with word 0, then with word 1 too.
FirstThreeTicks ==
  /\ stage = 1 =>
       /\ displayedCues = {0}
       /\ lyricsLines = OneLine(FALSE, FALSE, FALSE)
       /\ currentLyricIndex = -1
  /\ stage = 2 =>
       /\ currentLyricIndex = 0
       /\ lyricsLines = OneLine(TRUE, TRUE, FALSE)
  /\ stage = 3 =>
       /\ currentLyricIndex = 0
       /\ lyricsLines = OneLine(TRUE, TRUE, TRUE)

\* C17 as stated: after those three ticks, the tick at 14.05 starts the
\* completion of line 0: a grace timeout is pending on its element.
C17_ScenarioCompletesAt1405 ==
  /\ FirstThreeTicks
  /\ stage = 4 => \E k \in DOMAIN timers : timers[k] = 1

\* C17 amended: after those three ticks, the tick at 14.05 (within end + 0.1)
\* leaves line 0 the active line, with both words highlighted, and starts no
\* completion.
C17_ScenarioStillActiveAt1405 ==
  /\ FirstThreeTicks
  /\ stage = 4 =>
       /\ currentLyricIndex = 0
       /\ lyricsLines = OneLine(TRUE, TRUE, TRUE)
       /\ timers = <<>>

\* C17 witness: the four ticks 9.0, 10.0, 11.5, 14.05 have run in this order
\* on the freshly loaded cue, and line 0 is still the active line.
C17_Witness ==
  /\ stage = 4
  /\ lastOp = "tick"
  /\ lastTime = 14050
  /\ currentLyricIndex = 0
  /\ lyricsLines = OneLine(TRUE, TRUE, TRUE)

\* The lines a tick or seek at time t reveals: those with start - 2 <= t not
\* yet in the revealed set.
NewlyRevealed(t) ==
  {i \in 0..(Len(allCues) - 1) :
     allCues[i + 1].start - LOOKAHEAD <= t /\ i \notin displayedCues}

\* C18: a tick at t adds to the revealed set exactly the lines with
\* start - 2 <= t that were not in it, and appends one display element for each
\* of them, in ascending index order, and none for any other line.
C18_TickReveal ==
  [][(lastOp' = "tick" /\ allCues # <<>>) =>
       LET new == NewlyRevealed(lastTime')
           n == Len(lyricsLines)
       IN /\ displayedCues' = displayedCues \cup new
          /\ \A i \in 0..(Len(allCues) - 1) :
               allCues[i + 1].start - LOOKAHEAD <= lastTime' => i \in displayedCues'
          /\ Len(lyricsLines') = n + Cardinality(new)
          /\ {lyricsLines'[p].id : p \in (n + 1)..Len(lyricsLines')} = new
          /\ \A p, q \in (n + 1)..Len(lyricsLines') :
               p < q => lyricsLines'[p].id < lyricsLines'[q].id]_vars

\* C18 witness: the first tick, at 3 s, has revealed both lines of TrackA
\* (starts 0 and 5 = 3 + 2) in index order.
C18_Witness ==
  /\ lastOp = "tick"
  /\ lastTime = 3000
  /\ maxTick = 3000
  /\ Len(allCues) = 2
  /\ displayedCues = {0, 1}
  /\ Len(lyricsLines) = 2
  /\ lyricsLines[1].id = 0
  /\ lyricsLines[2].id = 1

\* C19 as stated: after a tick at t with active line L, word i of L is
\* highlighted exactly when t >= word[i].time, the last word exactly when
\* t >= word.time - 0.1.
C19_WordsByTime ==
  (lastOp = "tick" /\ currentLyricIndex # -1 /\ currentLyricIndex < Len(allCues)) =>
    LET words == allCues[currentLyricIndex + 1].words
    IN Highlighted(lyricsLines, currentLyricIndex) =
         {i \in DOMAIN words :
            IF i = Len(words) THEN lastTime >= words[i].time - WORD_END_SLACK
            ELSE lastTime >= words[i].time}

\* ------------------------------------------------------------ both marker forms
\* The text is made only of markers, <HH:MM:SS.mmm> or <MM:SS.mmm>, each
\* followed by a word (a run of word pieces) and then blanks.
RECURSIVE WellFormedEither(_)
WellFormedEither(pieces) ==
  IF pieces = <<>> THEN TRUE
  ELSE /\ Head(pieces).kind \in {"marker", "short"}
       /\ LET w == Lead(Tail(pieces), "word")
              rest == SubSeq(pieces, w + 2, Len(pieces))
              sp == Lead(rest, "space")
          IN w >= 1 /\ WellFormedEither(SubSeq(rest, sp + 1, Len(rest)))

\* C21 as stated: a marker of either form is recognised: a text made of markers
\* <HH:MM:SS.mmm> or <MM:SS.mmm>, each followed by a word, parses to those words,
\* with time hours*3600 + minutes*60 + seconds or minutes*60 + seconds.
C21_BothMarkerForms ==
  (parsedCue # <<>> /\ WellFormedEither(LastPieces)) =>
    parsedCue[1].words = MarkedWords(LastPieces)

\* ------------------------------------------------------------ grace timeouts
\* C22 as stated: a grace timeout that fires on the element of the line that
\* is the active line (again) leaves that element as it is: not marked played,
\* its active mark and word highlights kept.
C22_TimerSparesActiveLine ==
  [][(/\ lastOp' = "timer"
      /\ timers # <<>>
      /\ timers' = Tail(timers)
      /\ Head(timers) # 0
      /\ currentLyricIndex # -1
      /\ lyricsLines[Head(timers)].id = currentLyricIndex) =>
       lyricsLines' = lyricsLines]_vars

\* C23 as stated: once a tick has been processed and no grace timeout is
\* pending, no line other than the active line carries the active mark.
C23_OneActiveLine ==
  (tickTime # -1 /\ timers = <<>>) =>
    \A p \in DOMAIN lyricsLines :
      lyricsLines[p].active => lyricsLines[p].id = currentLyricIndex

====
